---------------------------- MODULE Spec2Model ----------------------------
(***************************************************************************)
(* Model of the two release-group blacklist scripts:                       *)
(*   scripts/generate_blacklist_from_srrdb.py  (srrDB CSV dump -> Go code) *)
(*   scripts/update_blacklist.py               (PreDB.club API -> arrays)  *)
(*                                                                         *)
(* A Python str is a sequence of one-character strings, so that regular    *)
(* expressions, str.lower(), str.strip(), str.split(',') and the ordering  *)
(* used by sorted() are computed character by character.                   *)
(***************************************************************************)
EXTENDS Integers, Sequences, FiniteSets, TLC

(***************************************************************************)
(* Characters and Python str methods                                       *)
(***************************************************************************)

\* Code points of the characters of the model's alphabet (Python's ord).
ord ==
    ("\n" :> 10) @@ (" " :> 32) @@ ("," :> 44) @@ ("-" :> 45) @@ ("." :> 46) @@ ("_" :> 95)
    @@ ("0" :> 48) @@ ("1" :> 49) @@ ("2" :> 50) @@ ("3" :> 51) @@ ("4" :> 52) @@ ("5" :> 53)
    @@ ("6" :> 54) @@ ("7" :> 55) @@ ("8" :> 56) @@ ("9" :> 57) @@ ("A" :> 65) @@ ("B" :> 66)
    @@ ("C" :> 67) @@ ("D" :> 68) @@ ("E" :> 69) @@ ("F" :> 70) @@ ("G" :> 71) @@ ("H" :> 72)
    @@ ("I" :> 73) @@ ("J" :> 74) @@ ("K" :> 75) @@ ("L" :> 76) @@ ("M" :> 77) @@ ("N" :> 78)
    @@ ("O" :> 79) @@ ("P" :> 80) @@ ("Q" :> 81) @@ ("R" :> 82) @@ ("S" :> 83) @@ ("T" :> 84)
    @@ ("U" :> 85) @@ ("V" :> 86) @@ ("W" :> 87) @@ ("X" :> 88) @@ ("Y" :> 89) @@ ("Z" :> 90)
    @@ ("a" :> 97) @@ ("b" :> 98) @@ ("c" :> 99) @@ ("d" :> 100) @@ ("e" :> 101) @@ ("f" :> 102)
    @@ ("g" :> 103) @@ ("h" :> 104) @@ ("i" :> 105) @@ ("j" :> 106) @@ ("k" :> 107) @@ ("l" :> 108)
    @@ ("m" :> 109) @@ ("n" :> 110) @@ ("o" :> 111) @@ ("p" :> 112) @@ ("q" :> 113) @@ ("r" :> 114)
    @@ ("s" :> 115) @@ ("t" :> 116) @@ ("u" :> 117) @@ ("v" :> 118) @@ ("w" :> 119) @@ ("x" :> 120)
    @@ ("y" :> 121) @@ ("z" :> 122)

lower_table ==
    ("A" :> "a") @@ ("B" :> "b") @@ ("C" :> "c") @@ ("D" :> "d") @@ ("E" :> "e")
    @@ ("F" :> "f") @@ ("G" :> "g") @@ ("H" :> "h") @@ ("I" :> "i") @@ ("J" :> "j")
    @@ ("K" :> "k") @@ ("L" :> "l") @@ ("M" :> "m") @@ ("N" :> "n") @@ ("O" :> "o")
    @@ ("P" :> "p") @@ ("Q" :> "q") @@ ("R" :> "r") @@ ("S" :> "s") @@ ("T" :> "t")
    @@ ("U" :> "u") @@ ("V" :> "v") @@ ("W" :> "w") @@ ("X" :> "x") @@ ("Y" :> "y")
    @@ ("Z" :> "z")

upper_table ==
    ("a" :> "A") @@ ("b" :> "B") @@ ("c" :> "C") @@ ("d" :> "D") @@ ("e" :> "E")
    @@ ("f" :> "F") @@ ("g" :> "G") @@ ("h" :> "H") @@ ("i" :> "I") @@ ("j" :> "J")
    @@ ("k" :> "K") @@ ("l" :> "L") @@ ("m" :> "M") @@ ("n" :> "N") @@ ("o" :> "O")
    @@ ("p" :> "P") @@ ("q" :> "Q") @@ ("r" :> "R") @@ ("s" :> "S") @@ ("t" :> "T")
    @@ ("u" :> "U") @@ ("v" :> "V") @@ ("w" :> "W") @@ ("x" :> "X") @@ ("y" :> "Y")
    @@ ("z" :> "Z")

Digits == {"0", "1", "2", "3", "4", "5", "6", "7", "8", "9"}

UpperLetters == DOMAIN lower_table

LowerLetters == DOMAIN upper_table

IsDigit(c) == c \in Digits

IsLetter(c) == c \in UpperLetters \cup LowerLetters

IsAlnum(c) == IsLetter(c) \/ IsDigit(c)

\* str.isspace() on the alphabet: the blank and the line feed.
Whitespace == {" ", "\n"}

char_lower(c) == IF c \in UpperLetters THEN lower_table[c] ELSE c

char_upper(c) == IF c \in LowerLetters THEN upper_table[c] ELSE c

\* str.lower()
str_lower(s) == [k \in 1..Len(s) |-> char_lower(s[k])]

\* str.upper()
str_upper(s) == [k \in 1..Len(s) |-> char_upper(s[k])]

SetMin(S) == CHOOSE x \in S : \A y \in S : x <= y

SetMax(S) == CHOOSE x \in S : \A y \in S : x >= y

\* str.strip(): leading and trailing whitespace removed.
str_strip(s) ==
    LET keep == {k \in 1..Len(s) : s[k] \notin Whitespace}
    IN  IF keep = {} THEN <<>> ELSE SubSeq(s, SetMin(keep), SetMax(keep))

\* str.split(',')[0]: the text before the first comma.
split_first(s) ==
    LET commas == {k \in 1..Len(s) : s[k] = ","}
    IN  IF commas = {} THEN s ELSE SubSeq(s, 1, SetMin(commas) - 1)

\* Python's < on str: lexicographic by code point.
str_less(a, b) ==
    \/ Len(a) < Len(b) /\ \A k \in 1..Len(a) : a[k] = b[k]
    \/ \E k \in 1..SetMin({Len(a), Len(b)}) :
          /\ \A j \in 1..(k - 1) : a[j] = b[j]
          /\ ord[a[k]] < ord[b[k]]

str_leq(a, b) == a = b \/ str_less(a, b)

\* substring test: needle in s
str_contains(s, needle) ==
    \E p \in 0..(Len(s) - Len(needle)) :
        \A k \in 1..Len(needle) : s[p + k] = needle[k]

(***************************************************************************)
(* Regular expressions (Python re)                                         *)
(***************************************************************************)

\* A pattern is a sequence of alternatives; an alternative is a sequence of
\* elements; an element is a literal character or the class \d.
DigitClass == "\\d"

elem_match(e, c, ignorecase) ==
    IF e = DigitClass THEN IsDigit(c)
    ELSE IF ignorecase THEN char_lower(e) = char_lower(c)
    ELSE e = c

\* the alternative alt matches s at offset p (0-based)
match_at(alt, s, p, ignorecase) ==
    /\ p + Len(alt) <= Len(s)
    /\ \A k \in 1..Len(alt) : elem_match(alt[k], s[p + k], ignorecase)

\* pattern.search(s): some alternative matches somewhere in s
re_search(pattern, s, ignorecase) ==
    \E p \in 0..Len(s) : \E a \in 1..Len(pattern) :
        match_at(pattern[a], s, p, ignorecase)

\* pattern.match(s) for a pattern that starts with ^: a match at offset 0
re_match_prefix(pattern, s, ignorecase) ==
    \E a \in 1..Len(pattern) : match_at(pattern[a], s, 0, ignorecase)

\* The positions after which $ matches: the end of the string, and just
\* before a line feed that ends the string.
dollar_ends(s) ==
    {Len(s)} \cup (IF Len(s) >= 1 /\ s[Len(s)] = "\n" THEN {Len(s) - 1} ELSE {})

\* No match (Python's None); a captured group is never empty.
None == <<>>

group_search_unanchored(s) ==
    LET starts == {p \in 1..Len(s) :
                     s[p] = "-" /\ p + 1 <= Len(s) /\ IsAlnum(s[p + 1])}
    IN  IF starts = {} THEN None
        ELSE LET p == SetMin(starts)
                 e == SetMax({q \in (p + 1)..Len(s) :
                                \A k \in (p + 1)..q : IsAlnum(s[k])})
             IN  SubSeq(s, p + 1, e)

\* re.search(r'-([A-Za-z0-9]+)$', s): group(1) of the leftmost match, or None.
group_search(s) ==
    LET fits(p, e) == /\ e >= p + 1
                      /\ \A k \in (p + 1)..e : IsAlnum(s[k])
        starts == {p \in 1..Len(s) :
                     s[p] = "-" /\ \E e \in dollar_ends(s) : fits(p, e)}
    IN  IF starts = {} THEN None
        ELSE LET p == SetMin(starts)
                 e == CHOOSE e \in dollar_ends(s) : fits(p, e)
             IN  SubSeq(s, p + 1, e)

\* tv_pattern = re.compile(r'S\d{2}E\d{2}|Season|Episode', re.IGNORECASE)
tv_pattern ==
    << <<"S", DigitClass, DigitClass, "E", DigitClass, DigitClass>>,
       <<"S", "e", "a", "s", "o", "n">>, <<"E", "p", "i", "s", "o", "d", "e">> >>

\* movie_pattern = re.compile(r'DVDRip|BluRay|BRRip|WEBRip|HDTV|WEB-DL|1080p|720p|2160p|4K', re.IGNORECASE)
movie_pattern ==
    << <<"D", "V", "D", "R", "i", "p">>, <<"B", "l", "u", "R", "a", "y">>, <<"B", "R", "R", "i", "p">>, <<"W", "E", "B", "R", "i", "p">>, <<"H", "D", "T", "V">>, <<"W", "E", "B", "-", "D", "L">>,
       <<"1", "0", "8", "0", "p">>, <<"7", "2", "0", "p">>, <<"2", "1", "6", "0", "p">>, <<"4", "K">> >>

\* exclude_pattern = re.compile(r'^(TEST|SAMPLE|PROOF|RARBG|ETRG|YTS|YIFY)', re.IGNORECASE)
exclude_pattern ==
    << <<"T", "E", "S", "T">>, <<"S", "A", "M", "P", "L", "E">>, <<"P", "R", "O", "O", "F">>, <<"R", "A", "R", "B", "G">>, <<"E", "T", "R", "G">>, <<"Y", "T", "S">>, <<"Y", "I", "F", "Y">> >>

valid_pattern_match_loose(g) ==
    \E e \in dollar_ends(g) :
        /\ e >= 1
        /\ \A k \in 1..e : IsAlnum(g[k])

\* valid_pattern = re.compile(r'^[A-Za-z][A-Za-z0-9]{1,}$'); valid_pattern.match(g)
valid_pattern_match(g) ==
    \E e \in dollar_ends(g) :
        /\ e >= 2
        /\ IsLetter(g[1])
        /\ \A k \in 2..e : IsAlnum(g[k])

is_tv_of(release_name) == re_search(tv_pattern, release_name, TRUE)

is_movie_no_precedence(release_name, tv) == re_search(movie_pattern, release_name, TRUE)

\* is_movie = bool(movie_pattern.search(release_name)) and not is_tv
is_movie_of(release_name, tv) ==
    re_search(movie_pattern, release_name, TRUE) /\ ~tv

\* release_name = line.split(',')[0].strip()
release_name_of(line) == str_strip(split_first(line))

filter_valid_groups_no_exclude(gs) == {g \in gs : valid_pattern_match(g)}

\* filter_valid_groups(groups): the set valid that the loop builds
filter_valid_groups(gs) ==
    {g \in gs : valid_pattern_match(g) /\ ~re_match_prefix(exclude_pattern, g, TRUE)}

(***************************************************************************)
(* generate_blacklist_from_srrdb.py: sorting and code generation           *)
(***************************************************************************)

\* The members of S whose key x.lower() is least.
min_by_lower(S) ==
    {x \in S : \A y \in S : str_leq(str_lower(x), str_lower(y))}

\* sorted(groups, key=lambda x: x.lower()): the sort is stable and a set is
\* iterated in an arbitrary order, so members with equal keys may come out
\* in any order.  The set of all possible results.
RECURSIVE sorted_by_lower(_)
sorted_by_lower(S) ==
    IF S = {} THEN {<<>>}
    ELSE UNION {{<<x>> \o rest : rest \in sorted_by_lower(S \ {x})} :
                  x \in min_by_lower(S)}

\* if len(current_line) == 8
GroupsPerLine == 8

go_entry_raw(g) == g

\* f'"{group.lower()}"': the entry written for a group
go_entry(g) == str_lower(g)

go_flush_never(lines_acc, current_line) == lines_acc

\* if current_line: lines.append(...)   (the groups after the last full line)
go_flush(lines_acc, current_line) ==
    IF current_line # <<>> THEN Append(lines_acc, current_line) ELSE lines_acc

\* The loop of generate_go_code over sorted_groups[k..]: the list lines, each
\* line the list of its entries.
RECURSIVE go_loop(_, _, _, _)
go_loop(sorted_groups, k, lines_acc, current_line) ==
    IF k > Len(sorted_groups) THEN go_flush(lines_acc, current_line)
    ELSE LET cur == Append(current_line, go_entry(sorted_groups[k]))
         IN  IF Len(cur) = GroupsPerLine
             THEN go_loop(sorted_groups, k + 1, Append(lines_acc, cur), <<>>)
             ELSE go_loop(sorted_groups, k + 1, lines_acc, cur)

\* // Total groups: {len(groups):,}
go_total(gs) == Cardinality(gs)

(***************************************************************************)
(* update_blacklist.py: the pure parts                                     *)
(***************************************************************************)

\* release.get(key, "")
release_get(release, key) == IF key \in DOMAIN release THEN release[key] ELSE <<>>

\* fetch_releases(limit, offset): the rows of a successful response; [] on an
\* API-level error status and on any exception (connection, timeout, HTTP
\* status, JSON).
fetch_releases(resp) == IF resp.kind = "success" THEN resp.rows ELSE <<>>

\* team = release.get("team", "").strip().lower()
team_of(release) == str_lower(str_strip(release_get(release, "team")))

\* cat = release.get("cat", "").upper()
cat_of(release) == str_upper(release_get(release, "cat"))

is_tv_cat(cat) == str_contains(cat, <<"T", "V">>)

is_movie_cat(cat) ==
    str_contains(cat, <<"M", "O", "V", "I", "E">>) \/ str_contains(cat, <<"X", "2", "6", "4">>) \/ str_contains(cat, <<"X", "V", "I", "D">>)

categorize_one_movie_first(acc, release) ==
    LET team == team_of(release)
        cat == cat_of(release)
    IN  IF team = <<>> \/ team = <<"n", "o", "n", "e">> THEN acc
        ELSE IF is_movie_cat(cat) THEN <<acc[1], acc[2] \cup {team}>>
        ELSE IF is_tv_cat(cat) THEN <<acc[1] \cup {team}, acc[2]>>
        ELSE acc

\* One iteration of the loop of categorize_groups: acc = <<tv_groups, movie_groups>>.
categorize_one(acc, release) ==
    LET team == team_of(release)
        cat == cat_of(release)
    IN  IF team = <<>> \/ team = <<"n", "o", "n", "e">> THEN acc
        ELSE IF is_tv_cat(cat) THEN <<acc[1] \cup {team}, acc[2]>>
        ELSE IF is_movie_cat(cat) THEN <<acc[1], acc[2] \cup {team}>>
        ELSE acc

\* categorize_groups(releases): <<tv_groups, movie_groups>>
RECURSIVE categorize_loop(_, _, _)
categorize_loop(rows, k, acc) ==
    IF k > Len(rows) THEN acc
    ELSE categorize_loop(rows, k + 1, categorize_one(acc, rows[k]))

categorize_groups(rows) == categorize_loop(rows, 1, <<{}, {}>>)

\* sorted(groups): ascending by code point (the members are distinct)
RECURSIVE sorted_plain(_)
sorted_plain(S) ==
    IF S = {} THEN <<>>
    ELSE LET x == CHOOSE m \in S : \A y \in S : str_leq(m, y)
         IN  <<x>> \o sorted_plain(S \ {x})

\* for i in range(0, len(tv_sorted), 10)
ArrayPerLine == 10

\* The printed lines of one array of generate_go_arrays: batch = sorted[i:i+10]
array_lines(sorted) ==
    [j \in 1..((Len(sorted) + ArrayPerLine - 1) \div ArrayPerLine) |->
        SubSeq(sorted, (j - 1) * ArrayPerLine + 1,
               SetMin({j * ArrayPerLine, Len(sorted)}))]

(***************************************************************************)
(* State                                                                   *)
(***************************************************************************)

VARIABLES
    \* generate_blacklist_from_srrdb.py
    fn,             \* the scanning function that runs: filter_tv_movie_groups
                    \* (called by main) or extract_release_groups
    pc,             \* "scan", "filter", "generate", "done"; "returned"; "idle"
    lines,          \* the lines of the file archivedFiles, each with its line feed
    line_num,       \* lines read so far
    release_name,   \* locals of the loop body, as the last iteration left them
    is_tv,
    is_movie,
    match,
    groups,         \* the set groups of the scanning function
    valid_groups,   \* main: valid_groups
    go_lines,       \* generate_go_code: lines, each the list of its entries
    total,          \* generate_go_code: the number after "Total groups:"
    run,            \* which run of the script this is
    first_output,   \* the go_lines of the first run
    first_lines,    \* the file of the first run
    \* update_blacklist.py
    spc,            \* "loop", "returned", "done"; "idle"
    i,              \* scrape_groups: the loop variable
    offsets,        \* the offsets fetch_releases was called with, in order
    status,         \* how the last fetch ended
    releases,       \* scrape_groups: releases of the last fetch
    tv,             \* scrape_groups: tv, movie of the last categorize_groups
    movie,
    all_tv,
    all_movie,
    seen_rows,      \* every release of every batch that was categorized
    tv_lines,       \* generate_go_arrays: the printed lines of each array
    movie_lines

srrdb_vars ==
    <<fn, pc, lines, line_num, release_name, is_tv, is_movie, match, groups,
      valid_groups, go_lines, total, run, first_output, first_lines>>

predb_vars ==
    <<spc, i, offsets, status, releases, tv, movie, all_tv, all_movie,
      seen_rows, tv_lines, movie_lines>>

vars == <<srrdb_vars, predb_vars>>

(***************************************************************************)
(* Inputs                                                                  *)
(***************************************************************************)

NL == <<"\n">>

\* Release-name records of a dump (the text of a line without its line feed).
RecordSeq ==
    << <<"M", ".", "1", "0", "8", "0", "p", "-", "S", "P", "A", "R", "K", "S">>,
       <<"s", "0", "1", "e", "0", "2", "-", "s", "p", "a", "r", "k", "s">>,
       <<"X", "-", "G", "R", "P">>,
       <<"S", "0", "1", "E", "0", "2", ".", "7", "2", "0", "p", "-", "S", "p", "a", "r", "k", "s">>,
       <<"S", "e", "a", "s", "o", "n", "-", "t", "e", "s", "t", "i", "n", "g", "1">>,
       <<"H", "D", "T", "V", "-", "1", "2", "3">>,
       <<"4", "k", "-", "A", "1", " ", ",", "x">>,
       <<"R", ".", "t", "x", "t">>,
       <<"W", "E", "B", "-", "D", "L">>,
       <<"E", "p", "i", "s", "o", "d", "e", "-", "a", "-", "B", "-">>,
       <<"x", ",", "1", "0", "8", "0", "p", "-", "G", "R", "P">>,
       <<"S", "1", "E", "0", "2", "-", "A", "b">>,
       <<"b", "r", "r", "i", "p", "-", "A">>,
       <<"a", "-", "b", ".", "B", "l", "u", "R", "a", "y", "-", "T", "E", "S", "T">>,
       <<" ", "2", "1", "6", "0", "p", "-", "b", "2">>,
       <<"D", "V", "D", "R", "i", "p", "-", "x", " ", "y">> >>

\* How many lines a dump holds at most.
MaxLines == 3

\* How many of the records of RecordSeq a dump of MaxLines lines draws from.
NumCoreRecords == 7

\* How many lines a dump holds when every record of RecordSeq may occur.
MaxRecLines == 2

\* How many lines a dump that is run twice holds, and how many records it draws from.
MaxRerunLines == 3

NumRerunRecords == 3

FirstRecords(n) == {RecordSeq[k] : k \in 1..SetMin({n, Len(RecordSeq)})}

SeqsUpTo(S, n) == UNION {[1..m -> S] : m \in 0..n}

Files(records, n) == {[k \in 1..Len(f) |-> f[k] \o NL] : f \in SeqsUpTo(records, n)}

\* Candidate tokens a scan can have collected.
CandSeq ==
    << <<"A", "1">>, <<"1", "2", "3">>, <<"T", "E", "S", "T">>, <<"t", "e", "s", "t", "i", "n", "g", "1">>, <<"S", "P", "A", "R", "K", "S">>, <<"s", "p", "a", "r", "k", "s">>, <<"D", "L">>,
       <<"G", "R", "P">>, <<"b", "2">>, <<"A", "b">>, <<"a", "B">>, <<"Z", "z">>, <<"x">>, <<"S", "p", "a", "r", "k", "s">>, <<"y", "t", "s", "9">>, <<"q", "7">> >>

NumCand == 13

\* Release records of the API: JSON objects with the keys "team" and "cat",
\* either of which may be missing.
ReleaseSeq ==
    << [team |-> <<" ", "S", "p", "a", "r", "k", "s", " ">>, cat |-> <<"T", "V", "-", "7", "2", "0", "P">>],
       [team |-> <<"s", "p", "a", "r", "k", "s">>, cat |-> <<"M", "O", "V", "I", "E", "-", "S", "D">>],
       [team |-> <<"N", "O", "N", "E">>, cat |-> <<"T", "V", "-", "S", "D">>],
       [team |-> <<"G", "R", "P">>, cat |-> <<"t", "v", "-", "x", "2", "6", "4">>],
       [cat |-> <<"X", "2", "6", "4">>],
       [team |-> <<"a", " ", "b">>, cat |-> <<"X", "v", "i", "D">>],
       [team |-> <<"d", "1">>, cat |-> <<"M", "P", "3">>],
       [team |-> <<"n", "1">>] >>

NumReleases == 6

\* scrape_groups(batch_count, batch_size)
batch_count == 3

batch_size == 2

\* The rows ReleaseSeq[k], k in ks, in the order of ReleaseSeq.
page_of(ks) ==
    LET RECURSIVE build(_)
        build(k) ==
            IF k > Len(ReleaseSeq) THEN <<>>
            ELSE (IF k \in ks THEN <<ReleaseSeq[k]>> ELSE <<>>) \o build(k + 1)
    IN  build(1)

\* The pages of rows the API can answer with: at most limit = batch_size rows.
Pages ==
    {page_of(ks) : ks \in {x \in SUBSET (1..SetMin({NumReleases, Len(ReleaseSeq)})) :
                              Cardinality(x) <= batch_size}}

\* What a call of the API can do: answer with status "success" and a page of
\* rows (possibly empty), answer with another status, or fail (connection
\* error, timeout, HTTP error status, unparsable body).
ApiResponses ==
    [kind : {"success"}, rows : Pages]
    \cup [kind : {"api_error", "exception"}, rows : {<<>>, <<ReleaseSeq[1]>>}]

\* Team names scrape_groups can return: stripped, lower-cased, not "none".
TeamSeq ==
    << <<"s", "p", "a", "r", "k", "s">>, <<"g", "r", "p">>, <<"a", " ", "b">>, <<"d", "1">>, <<"s", "p", "a", "r", "k">>, <<"1", "0", "b", "i", "t">>, <<"z", "z">>, <<"a", "-", "b">>,
       <<"a", "b">>, <<"n", "_", "1">>, <<"x">>, <<"a">>, <<"b", "2">> >>

NumTeams == 11

\* The sets of consecutive members of TeamSeq.
TeamSets ==
    {{TeamSeq[k] : k \in a..b} :
        a \in 1..SetMin({NumTeams, Len(TeamSeq)}),
        b \in 0..SetMin({NumTeams, Len(TeamSeq)})}

(***************************************************************************)
(* Initial states                                                          *)
(***************************************************************************)

srrdb_idle ==
    /\ fn = "filter_tv_movie_groups" /\ pc = "idle"
    /\ lines = <<>> /\ line_num = 0
    /\ release_name = <<>> /\ is_tv = FALSE /\ is_movie = FALSE /\ match = None
    /\ groups = {} /\ valid_groups = {} /\ go_lines = <<>> /\ total = 0
    /\ run = 1 /\ first_output = <<>> /\ first_lines = <<>>

predb_idle ==
    /\ spc = "idle" /\ i = 0 /\ offsets = <<>> /\ status = "none"
    /\ releases = <<>> /\ tv = {} /\ movie = {}
    /\ all_tv = {} /\ all_movie = {} /\ seen_rows = {}
    /\ tv_lines = <<>> /\ movie_lines = <<>>

\* The start of a scanning function over the file f.
srrdb_start(f, function) ==
    /\ fn = function /\ pc = "scan"
    /\ lines = f /\ line_num = 0
    /\ release_name = <<>> /\ is_tv = FALSE /\ is_movie = FALSE /\ match = None
    /\ groups = {} /\ valid_groups = {} /\ go_lines = <<>> /\ total = 0
    /\ run = 1 /\ first_output = <<>> /\ first_lines = <<>>

\* main of generate_blacklist_from_srrdb.py over a dump of up to MaxLines lines.
Init ==
    /\ \E f \in Files(FirstRecords(NumCoreRecords), MaxLines) :
          srrdb_start(f, "filter_tv_movie_groups")
    /\ predb_idle

\* Either scanning function over a dump of any records.
InitRecord ==
    /\ \E f \in Files(FirstRecords(Len(RecordSeq)), MaxRecLines) :
       \E function \in {"filter_tv_movie_groups", "extract_release_groups"} :
          srrdb_start(f, function)
    /\ predb_idle

InitRerun ==
    /\ \E f \in Files(FirstRecords(NumRerunRecords), MaxRerunLines) :
          srrdb_start(f, "filter_tv_movie_groups")
    /\ predb_idle

\* The file whose scan collects the candidate tokens CandSeq[k], k in ks.
file_of_candidates(ks) ==
    LET RECURSIVE build(_)
        build(k) ==
            IF k > Len(CandSeq) THEN <<>>
            ELSE (IF k \in ks THEN << <<"7", "2", "0", "p", "-">> \o CandSeq[k] \o NL >> ELSE <<>>)
                 \o build(k + 1)
    IN  build(1)

\* main of generate_blacklist_from_srrdb.py when filter_tv_movie_groups has
\* returned, and main of update_blacklist.py when scrape_groups has returned.
InitEmit ==
    \/ /\ \E ks \in SUBSET (1..SetMin({NumCand, Len(CandSeq)})) :
             /\ lines = file_of_candidates(ks)
             /\ line_num = Cardinality(ks)
             /\ groups = {CandSeq[k] : k \in ks}
             /\ release_name = (IF ks = {} THEN <<>> ELSE <<"7", "2", "0", "p", "-">> \o CandSeq[SetMax(ks)])
             /\ is_movie = (ks # {})
             /\ match = (IF ks = {} THEN None ELSE CandSeq[SetMax(ks)])
       /\ fn = "filter_tv_movie_groups" /\ pc = "filter" /\ is_tv = FALSE
       /\ valid_groups = {} /\ go_lines = <<>> /\ total = 0
       /\ run = 1 /\ first_output = <<>> /\ first_lines = <<>>
       /\ predb_idle
    \/ /\ srrdb_idle
       /\ all_tv \in TeamSets /\ all_movie \in TeamSets
       \* the first batch held these teams and the second fetch failed
       /\ spc = "returned" /\ i = 1 /\ offsets = <<0, batch_size>>
       /\ status = "exception" /\ releases = <<>>
       /\ tv = all_tv /\ movie = all_movie
       /\ seen_rows = {[team |-> t, cat |-> <<"T", "V">>] : t \in all_tv}
                       \cup {[team |-> t, cat |-> <<"M", "O", "V", "I", "E">>] : t \in all_movie}
       /\ tv_lines = <<>> /\ movie_lines = <<>>

InitScrape ==
    /\ srrdb_idle
    /\ spc = "loop" /\ i = 0 /\ offsets = <<>> /\ status = "none"
    /\ releases = <<>> /\ tv = {} /\ movie = {}
    /\ all_tv = {} /\ all_movie = {} /\ seen_rows = {}
    /\ tv_lines = <<>> /\ movie_lines = <<>>

(***************************************************************************)
(* generate_blacklist_from_srrdb.py: actions                               *)
(***************************************************************************)

\* One iteration of the loop of filter_tv_movie_groups.
filter_tv_movie_groups_step ==
    /\ pc = "scan" /\ fn = "filter_tv_movie_groups"
    /\ line_num < Len(lines)
    /\ LET name == release_name_of(lines[line_num + 1])
           t == is_tv_of(name)
           m == is_movie_of(name, t)
           found == IF t \/ m THEN group_search(name) ELSE match
       IN  /\ line_num' = line_num + 1
           /\ release_name' = name
           /\ is_tv' = t
           /\ is_movie' = m
           /\ match' = found
           /\ groups' = IF (t \/ m) /\ found # None THEN groups \cup {found} ELSE groups
    /\ UNCHANGED <<fn, pc, lines, valid_groups, go_lines, total, run, first_output, first_lines>>
    /\ UNCHANGED predb_vars

\* The file is exhausted: filter_tv_movie_groups returns groups to main.
filter_tv_movie_groups_return ==
    /\ pc = "scan" /\ fn = "filter_tv_movie_groups"
    /\ line_num = Len(lines)
    /\ pc' = "filter"
    /\ UNCHANGED <<fn, lines, line_num, release_name, is_tv, is_movie, match, groups,
                   valid_groups, go_lines, total, run, first_output, first_lines>>
    /\ UNCHANGED predb_vars

\* One iteration of the loop of extract_release_groups.
extract_release_groups_step ==
    /\ pc = "scan" /\ fn = "extract_release_groups"
    /\ line_num < Len(lines)
    /\ LET name == release_name_of(lines[line_num + 1])
           found == group_search(name)
       IN  /\ line_num' = line_num + 1
           /\ release_name' = name
           /\ match' = found
           /\ groups' = IF found # None THEN groups \cup {found} ELSE groups
    /\ UNCHANGED <<fn, pc, lines, is_tv, is_movie, valid_groups, go_lines, total,
                   run, first_output, first_lines>>
    /\ UNCHANGED predb_vars

\* extract_release_groups returns groups; main does not call it.
extract_release_groups_return ==
    /\ pc = "scan" /\ fn = "extract_release_groups"
    /\ line_num = Len(lines)
    /\ pc' = "returned"
    /\ UNCHANGED <<fn, lines, line_num, release_name, is_tv, is_movie, match, groups,
                   valid_groups, go_lines, total, run, first_output, first_lines>>
    /\ UNCHANGED predb_vars

\* main: valid_groups = filter_valid_groups(groups)
main_filter_valid_groups ==
    /\ pc = "filter"
    /\ valid_groups' = filter_valid_groups(groups)
    /\ pc' = "generate"
    /\ UNCHANGED <<fn, lines, line_num, release_name, is_tv, is_movie, match, groups,
                   go_lines, total, run, first_output, first_lines>>
    /\ UNCHANGED predb_vars

\* main: go_code = generate_go_code(valid_groups), printed and saved
main_generate_go_code ==
    /\ pc = "generate"
    /\ \E sorted_groups \in sorted_by_lower(valid_groups) :
          go_lines' = go_loop(sorted_groups, 1, <<>>, <<>>)
    /\ total' = go_total(valid_groups)
    /\ pc' = "done"
    /\ UNCHANGED <<fn, lines, line_num, release_name, is_tv, is_movie, match, groups,
                   valid_groups, run, first_output, first_lines>>
    /\ UNCHANGED predb_vars

\* The script is run again, from fresh empty sets, over a file with the same
\* set of distinct lines: permuted, or with lines repeated or dropped.
run_again ==
    /\ pc = "done" /\ run = 1
    /\ first_output' = go_lines
    /\ first_lines' = lines
    /\ run' = 2
    /\ \E f \in Files(FirstRecords(NumRerunRecords), MaxRerunLines) :
          /\ {f[k] : k \in 1..Len(f)} = {lines[k] : k \in 1..Len(lines)}
          /\ lines' = f
    /\ line_num' = 0 /\ pc' = "scan"
    /\ release_name' = <<>> /\ is_tv' = FALSE /\ is_movie' = FALSE /\ match' = None
    /\ groups' = {} /\ valid_groups' = {} /\ go_lines' = <<>> /\ total' = 0
    /\ UNCHANGED fn
    /\ UNCHANGED predb_vars

(***************************************************************************)
(* update_blacklist.py: actions                                            *)
(***************************************************************************)

offset_without_size(k) == k

\* offset = i * batch_size
offset_of(k) == k * batch_size

\* One iteration of the loop of scrape_groups: the fetch at offset
\* i * batch_size, then either the break or the update of the sets.
scrape_groups_step ==
    /\ spc = "loop"
    /\ i < batch_count
    /\ \E resp \in ApiResponses :
          LET rows == fetch_releases(resp)
              cats == categorize_groups(rows)
          IN  /\ offsets' = Append(offsets, offset_of(i))
              /\ status' = resp.kind
              /\ releases' = rows
              /\ IF rows = <<>>
                 THEN /\ spc' = "returned"
                      /\ UNCHANGED <<i, tv, movie, all_tv, all_movie, seen_rows>>
                 ELSE /\ tv' = cats[1]
                      /\ movie' = cats[2]
                      /\ all_tv' = all_tv \cup cats[1]
                      /\ all_movie' = all_movie \cup cats[2]
                      /\ seen_rows' = seen_rows \cup {rows[k] : k \in 1..Len(rows)}
                      /\ i' = i + 1
                      /\ UNCHANGED spc
    /\ UNCHANGED <<tv_lines, movie_lines>>
    /\ UNCHANGED srrdb_vars

\* range(batch_count) is exhausted: scrape_groups returns.
scrape_groups_return ==
    /\ spc = "loop"
    /\ i = batch_count
    /\ spc' = "returned"
    /\ UNCHANGED <<i, offsets, status, releases, tv, movie, all_tv, all_movie,
                   seen_rows, tv_lines, movie_lines>>
    /\ UNCHANGED srrdb_vars

\* __main__: generate_go_arrays(tv_groups, movie_groups) when a set is not
\* empty, "No groups found" otherwise.
main_generate_go_arrays ==
    /\ spc = "returned"
    /\ IF all_tv # {} \/ all_movie # {}
       THEN /\ tv_lines' = array_lines(sorted_plain(all_tv))
            /\ movie_lines' = array_lines(sorted_plain(all_movie))
       ELSE UNCHANGED <<tv_lines, movie_lines>>
    /\ spc' = "done"
    /\ UNCHANGED <<i, offsets, status, releases, tv, movie, all_tv, all_movie, seen_rows>>
    /\ UNCHANGED srrdb_vars

(***************************************************************************)
(* Specifications                                                          *)
(***************************************************************************)

Next ==
    \/ filter_tv_movie_groups_step
    \/ filter_tv_movie_groups_return
    \/ main_filter_valid_groups
    \/ main_generate_go_code

\* main of generate_blacklist_from_srrdb.py
Spec == Init /\ [][Next]_vars

NextRecord ==
    \/ filter_tv_movie_groups_step
    \/ filter_tv_movie_groups_return
    \/ extract_release_groups_step
    \/ extract_release_groups_return
    \/ main_filter_valid_groups
    \/ main_generate_go_code

\* Either scanning function, over every record of RecordSeq
SpecRecord == InitRecord /\ [][NextRecord]_vars

NextRerun == Next \/ run_again

\* main of generate_blacklist_from_srrdb.py, run twice
SpecRerun == InitRerun /\ [][NextRerun]_vars

NextEmit ==
    \/ main_filter_valid_groups
    \/ main_generate_go_code
    \/ main_generate_go_arrays

\* The two scripts from the return of their scan
SpecEmit == InitEmit /\ [][NextEmit]_vars

NextScrape ==
    \/ scrape_groups_step
    \/ scrape_groups_return
    \/ main_generate_go_arrays

\* update_blacklist.py.  The script is one thread that runs to its end, and
\* every call of the API returns or raises within its timeout of 30 s.
SpecScrape == InitScrape /\ [][NextScrape]_vars /\ WF_vars(NextScrape)

(***************************************************************************)
(* The specified behaviour, stated without the regular expressions         *)
(***************************************************************************)

Range(f) == {f[k] : k \in 1..Len(f)}

RECURSIVE Flatten(_)
Flatten(ls) == IF ls = <<>> THEN <<>> ELSE Head(ls) \o Flatten(Tail(ls))

\* The entries generate_go_code wrote, in order.
Emitted == Flatten(go_lines)

IsLowerCase(s) == \A k \in 1..Len(s) : s[k] \notin UpperLetters

NonDecreasing(seq) == \A k \in 1..(Len(seq) - 1) : str_leq(seq[k], seq[k + 1])

NoDuplicates(seq) == \A j, k \in 1..Len(seq) : j # k => seq[j] # seq[k]

\* The first comma-delimited field of a line, without the line's line feed.
Field(line) ==
    LET text == IF line # <<>> /\ line[Len(line)] = "\n"
                THEN SubSeq(line, 1, Len(line) - 1) ELSE line
        commas == {k \in 1..Len(text) : text[k] = ","}
    IN  IF commas = {} THEN text ELSE SubSeq(text, 1, SetMin(commas) - 1)

\* The field without its leading and trailing whitespace.
Trimmed(line) == str_strip(Field(line))

\* The run of letters and digits after the last hyphen of s when s ends with
\* a hyphen followed by one or more letters or digits; None otherwise.
TrailingToken(s) ==
    LET hyphens == {p \in 1..Len(s) : s[p] = "-"}
    IN  IF hyphens = {} THEN None
        ELSE LET t == SubSeq(s, SetMax(hyphens) + 1, Len(s))
             IN  IF t # <<>> /\ \A k \in 1..Len(t) : IsAlnum(t[k]) THEN t ELSE None

HasWord(s, words) == \E w \in words : str_contains(str_lower(s), w)

\* S##E##, in either case
HasEpisodeMarker(s) ==
    \E p \in 1..(Len(s) - 5) :
        /\ s[p] \in {"S", "s"} /\ IsDigit(s[p + 1]) /\ IsDigit(s[p + 2])
        /\ s[p + 3] \in {"E", "e"} /\ IsDigit(s[p + 4]) /\ IsDigit(s[p + 5])

HasTVIndicator(s) == HasEpisodeMarker(s) \/ HasWord(s, {<<"s", "e", "a", "s", "o", "n">>, <<"e", "p", "i", "s", "o", "d", "e">>})

HasMovieIndicator(s) ==
    HasWord(s, {<<"d", "v", "d", "r", "i", "p">>, <<"b", "l", "u", "r", "a", "y">>, <<"b", "r", "r", "i", "p">>, <<"w", "e", "b", "r", "i", "p">>, <<"h", "d", "t", "v">>, <<"w", "e", "b", "-", "d", "l">>,
                <<"1", "0", "8", "0", "p">>, <<"7", "2", "0", "p">>, <<"2", "1", "6", "0", "p">>, <<"4", "k">>})

Classification(s) ==
    IF HasTVIndicator(s) THEN "TV"
    ELSE IF HasMovieIndicator(s) THEN "Movie"
    ELSE "Unclassified"

\* What the loop body's is_tv, is_movie say.
Classified(t, m) ==
    IF t /\ m THEN "Both" ELSE IF t THEN "TV" ELSE IF m THEN "Movie" ELSE "Unclassified"

HasValidShape(t) ==
    /\ Len(t) >= 2
    /\ IsLetter(t[1])
    /\ \A k \in 2..Len(t) : IsAlnum(t[k])

IsExcluded(t) ==
    \E w \in {<<"t", "e", "s", "t">>, <<"s", "a", "m", "p", "l", "e">>, <<"p", "r", "o", "o", "f">>, <<"r", "a", "r", "b", "g">>, <<"e", "t", "r", "g">>, <<"y", "t", "s">>, <<"y", "i", "f", "y">>} :
        /\ Len(w) <= Len(t)
        /\ str_lower(SubSeq(t, 1, Len(w))) = w

PassesValidation(t) == HasValidShape(t) /\ ~IsExcluded(t)

\* The candidate tokens of the records among the first n lines, of every
\* record or of the records classified TV or Movie only.
Candidates(n, classified_only) ==
    {TrailingToken(Trimmed(lines[k])) :
        k \in {j \in 1..n : ~classified_only
                              \/ Classification(Trimmed(lines[j])) # "Unclassified"}}
    \ {None}

(***************************************************************************)
(* C1                                                                      *)
(***************************************************************************)

\* C1 as stated: the final token set is exactly the lower-cased tokens of the
\* records, of whatever classification, whose candidate passes validation.
C1_EveryRecordContributes ==
    pc = "done" =>
        Range(Emitted) =
            {str_lower(t) : t \in {c \in Candidates(Len(lines), FALSE) : PassesValidation(c)}}

\* C1 amended: the final token set is exactly the lower-cased tokens of the
\* records classified TV or Movie whose candidate passes validation.
C1_ClassifiedRecordsContribute ==
    pc = "done" =>
        Range(Emitted) =
            {str_lower(t) : t \in {c \in Candidates(Len(lines), TRUE) : PassesValidation(c)}}

\* A finished run over a TV record, a movie record whose token is excluded
\* and an unclassified record with a valid token, which is not in the output.
C1_Witness ==
    /\ pc = "done"
    /\ Emitted = << <<"s", "p", "a", "r", "k", "s">> >>
    /\ <<"s", "0", "1", "e", "0", "2", "-", "s", "p", "a", "r", "k", "s", "\n">> \in Range(lines)
    /\ <<"S", "e", "a", "s", "o", "n", "-", "t", "e", "s", "t", "i", "n", "g", "1", "\n">> \in Range(lines)
    /\ <<"X", "-", "G", "R", "P", "\n">> \in Range(lines)

(***************************************************************************)
(* C2                                                                      *)
(***************************************************************************)

\* C2: the emitted list holds each lower-cased token at most once, and the
\* reported total is the number of distinct lower-cased tokens.
C2_CaseInsensitiveDedup ==
    pc = "done" =>
        /\ NoDuplicates(Emitted)
        /\ total = Cardinality(Range(Emitted))

(***************************************************************************)
(* C3                                                                      *)
(***************************************************************************)

\* The last iteration of the scanning loop ran the extraction.
Extracted ==
    /\ line_num > 0
    /\ fn = "extract_release_groups" \/ is_tv \/ is_movie

\* C3 as stated: the candidate is the trailing token of the release-name
\* field as it stands in the record, and a field without such a suffix (one
\* that ends in a space, for one) adds nothing to the set.
C3_TokenOfField ==
    /\ Extracted => match = TrailingToken(Field(lines[line_num]))
    /\ \A k \in 1..line_num :
          TrailingToken(Field(lines[k])) = None =>
              TrailingToken(Trimmed(lines[k])) \notin groups

\* C3 amended: the candidate is the trailing token of the field with its
\* leading and trailing whitespace removed (never an earlier hyphen-delimited
\* segment), None when the trimmed field has no such suffix; the set holds
\* exactly the candidates of the records read so far that are not None.
C3_TokenOfTrimmedField ==
    /\ Extracted => match = TrailingToken(Trimmed(lines[line_num]))
    /\ groups = Candidates(line_num, fn = "filter_tv_movie_groups")

\* A record with several hyphens gave the segment after the last one.
C3_Witness ==
    /\ Extracted
    /\ lines[line_num] = <<"a", "-", "b", ".", "B", "l", "u", "R", "a", "y", "-", "T", "E", "S", "T", "\n">>
    /\ match = <<"T", "E", "S", "T">>
    /\ <<"T", "E", "S", "T">> \in groups

(***************************************************************************)
(* C4                                                                      *)
(***************************************************************************)

\* C4: a record is TV whenever it has a TV indicator, Movie iff it has a
\* movie indicator and no TV indicator, Unclassified iff it has neither, and
\* never both.
C4_Classification ==
    (fn = "filter_tv_movie_groups" /\ line_num > 0) =>
        /\ release_name = Trimmed(lines[line_num])
        /\ Classified(is_tv, is_movie) = Classification(release_name)

\* A record with a season/episode marker and a movie-quality marker is TV.
C4_Witness ==
    /\ fn = "filter_tv_movie_groups" /\ line_num > 0
    /\ HasEpisodeMarker(release_name) /\ HasMovieIndicator(release_name)
    /\ is_tv /\ ~is_movie

(***************************************************************************)
(* C5                                                                      *)
(***************************************************************************)

\* C5: filter_valid_groups returns exactly the tokens of its input that have
\* the valid shape and no exclusion prefix, and leaves its input as it was;
\* "A1" is kept, "1", "123", "AB-C", "TEST" and "testing1" are dropped.
C5_Validation ==
    /\ pc \in {"generate", "done"} =>
          /\ valid_groups = {g \in groups : PassesValidation(g)}
          /\ groups = Candidates(line_num, TRUE)
    /\ filter_valid_groups({ <<"A", "1">>, <<"1">>, <<"1", "2", "3">>, <<"A", "B", "-", "C">>, <<"T", "E", "S", "T">>, <<"t", "e", "s", "t", "i", "n", "g", "1">> })
          = { <<"A", "1">> }

\* A set with tokens of each kind went through filter_valid_groups.
C5_Witness ==
    /\ pc = "generate"
    /\ { <<"A", "1">>, <<"A", "b">>, <<"b", "2">> } \subseteq valid_groups
    /\ { <<"1", "2", "3">>, <<"x">>, <<"T", "E", "S", "T">>, <<"t", "e", "s", "t", "i", "n", "g", "1">> } \subseteq groups \ valid_groups

(***************************************************************************)
(* C6                                                                      *)
(***************************************************************************)

\* C6: every member of every accumulating group set is lower-case.
C6_MembersLowerCase ==
    \A g \in groups \cup valid_groups \cup tv \cup movie \cup all_tv \cup all_movie :
        IsLowerCase(g)

(***************************************************************************)
(* C7                                                                      *)
(***************************************************************************)

\* C7: a second run from fresh sets over the same distinct records, permuted
\* or repeated, ends with the output of the first run; and after any prefix
\* of a file the set holds each record's own contribution, whatever records
\* come before or after it.
C7_OrderIndependence ==
    /\ (run = 2 /\ pc = "done") => go_lines = first_output
    /\ pc # "idle" => groups = Candidates(line_num, TRUE)

\* The second run read the records in another order and one of them twice.
C7_Witness ==
    /\ run = 2 /\ pc = "done"
    /\ Len(lines) = 3 /\ Len(first_lines) = 2
    /\ lines[1] = first_lines[2]
    /\ Len(Emitted) = 2

(***************************************************************************)
(* C8                                                                      *)
(***************************************************************************)

\* C8: the entries of generate_go_code, and each array of generate_go_arrays,
\* are lower-case and in non-decreasing order, and every token of the input
\* set is among them.
C8_SortedLowerCaseOutput ==
    /\ pc = "done" =>
          /\ \A e \in Range(Emitted) : IsLowerCase(e)
          /\ NonDecreasing(Emitted)
          /\ \A g \in valid_groups : str_lower(g) \in Range(Emitted)
    /\ spc = "done" =>
          /\ \A e \in Range(Flatten(tv_lines)) \cup Range(Flatten(movie_lines)) :
                IsLowerCase(e)
          /\ NonDecreasing(Flatten(tv_lines))
          /\ NonDecreasing(Flatten(movie_lines))
          /\ Range(Flatten(tv_lines)) = all_tv
          /\ Range(Flatten(movie_lines)) = all_movie

\* More groups than fit on one line of 8 were written.
C8_Witness ==
    /\ pc = "done"
    /\ Len(go_lines) = 2
    /\ Len(go_lines[1]) = GroupsPerLine
    /\ Cardinality(valid_groups) = GroupsPerLine + 1

(***************************************************************************)
(* C9, C10                                                                 *)
(***************************************************************************)

\* The team of an API record: trimmed and lower-cased, empty when missing.
Team(r) == IF "team" \in DOMAIN r THEN str_lower(str_strip(r.team)) ELSE <<>>

\* The upper-cased category of the record contains the word.
CatHas(r, word) ==
    /\ "cat" \in DOMAIN r
    /\ \E p \in 0..(Len(r.cat) - Len(word)) :
          \A k \in 1..Len(word) : char_upper(r.cat[p + k]) = word[k]

Partition(r) ==
    IF Team(r) = <<>> \/ Team(r) = <<"n", "o", "n", "e">> THEN "neither"
    ELSE IF CatHas(r, <<"T", "V">>) THEN "tv"
    ELSE IF CatHas(r, <<"M", "O", "V", "I", "E">>) \/ CatHas(r, <<"X", "2", "6", "4">>) \/ CatHas(r, <<"X", "V", "I", "D">>) THEN "movie"
    ELSE "neither"

TeamsOf(rows, part) == {Team(r) : r \in {x \in rows : Partition(x) = part}}

C9_Fetches ==
    /\ Len(offsets) <= batch_count
    /\ \A k \in 1..Len(offsets) : offsets[k] = (k - 1) * batch_size
    /\ spc = "loop" => Len(offsets) = i
    /\ (Len(offsets) > 0 /\ releases = <<>>) => (spc # "loop" /\ Len(offsets) = i + 1)
    /\ status \in {"api_error", "exception"} => releases = <<>>
    /\ all_tv = TeamsOf(seen_rows, "tv")
    /\ all_movie = TeamsOf(seen_rows, "movie")

C9_SetsGrow == [][all_tv \subseteq all_tv' /\ all_movie \subseteq all_movie']_vars

\* C9: scrape_groups terminates whatever the API does; it fetches at most
\* batch_count times, at the offsets 0, batch_size, 2 * batch_size, ..., each
\* once; it stops at the first fetch without rows, failed or empty; the sets
\* only grow; and they are the categorized groups of the batches fetched.
C9_ScrapeTerminates ==
    /\ []C9_Fetches
    /\ C9_SetsGrow
    /\ <>(spc # "loop")

\* A fetch failed after two batches, and the groups of those batches are kept.
C9_Witness ==
    /\ spc = "returned"
    /\ status = "exception"
    /\ offsets = <<0, batch_size, 2 * batch_size>>
    /\ all_tv # {} /\ all_movie # {}

=============================================================================
